---- MODULE Spec2Model ----
(***************************************************************************)
(* Model of the jackal client-to-server session manager (package c2s):     *)
(* the stream registry (RegisterStream, AuthenticateStream,                *)
(* UnregisterStream), the per-user block-list cache (getBlockList,         *)
(* IsBlockedJID, ReloadBlockList) and the stanza router (Route, MustRoute, *)
(* StreamsMatchingJID, route).                                             *)
(*                                                                         *)
(* A Go map is a function whose DOMAIN is the set of keys present; a Go    *)
(* slice is a sequence.  Every critical section of the manager (the code   *)
(* between m.lock.Lock/RLock and the matching Unlock) is one atomic step;  *)
(* everything a goroutine does outside the lock (a storage call, the       *)
(* SendElement calls) is a step of its own, so that the lifecycle          *)
(* operations of other goroutines interleave with a route in progress.     *)
(***************************************************************************)
EXTENDS Integers, Sequences, FiniteSets, TLC

VARIABLES
    stms,             \* Manager.stms: stream id -> stream
    authedStms,       \* Manager.authedStms: username -> list of streams
    blockLists,       \* Manager.blockLists: username -> list of JIDs
    storedBlockList,  \* persisted block-list items (storage): username -> list of JID strings
    frame,            \* per goroutine: the Route / MustRoute / IsBlockedJID call in progress
    lastCall,         \* the last lifecycle call that returned: operation, stream, error
    registered,       \* history: ids whose last successful Register/Unregister was a Register
    lastBlocked,      \* history: last IsBlockedJID result per <<jid, username>> since the reload
    initialized,      \* the singleton's flag (uint32), changed by compare-and-swap
    inst,             \* the singleton's pointer: Nil or the Manager it points to
    instMu,           \* the singleton's RWMutex: its writer and its readers
    created,          \* history: the number of Manager values Initialize has made
    initReturned,     \* history: some call of Initialize has returned
    mu,               \* Context.mu: its writer and its readers
    onceHandlers,     \* Context.onceHandlers: the set of the names present
    ctxm,             \* Context.m: key -> value
    stack,            \* per goroutine: its calls of Context methods in progress, innermost first
    ran,              \* history: per handler name, how many times its function was run
    onceCalled,       \* history: the handler names DoOnce was called with
    xep,              \* the XEPRegister handler: its cfg, its stm and its registered latch
    users,            \* the accounts the storage holds: username -> password
    iqLog,            \* history: the last IQ given to ProcessIQ, with its replies and storage calls
    lock              \* Manager.lock: its writer and its readers

\* the singleton of package c2s
singletonVars == <<initialized, inst, instMu, created, initReturned>>

\* a stream's Context and the goroutines that use it
ctxVars == <<mu, onceHandlers, ctxm, stack, ran, onceCalled>>

\* the in-band registration handler of a stream, and the accounts
xepVars == <<xep, users, iqLog>>

\* the state beside the manager's own
otherVars == <<singletonVars, ctxVars, xepVars, lock>>

vars == <<stms, authedStms, blockLists, storedBlockList, frame, lastCall, registered, lastBlocked,
          otherVars>>

mgrVars == <<stms, authedStms, blockLists>>

----------------------------------------------------------------------------
(* Bounds of the model *)

\* AuthenticateStream is not called once this many entries are in authedStms.
MaxAuthed == 2

\* Initialize makes no Manager once it has made this many.
MaxCreated == 2

\* The function of a handler name is not run once it has run this many times.
MaxRuns == 2

----------------------------------------------------------------------------
(* Configuration, JIDs and streams *)

\* cfg.Domains
LocalDomains == <<"example.org">>

\* the range of int8, the type of a presence priority
MinInt8 == -128
MaxInt8 == 127

Range(seq) == {seq[i] : i \in 1..Len(seq)}

IsLocalDomain(domain) == \E i \in 1..Len(LocalDomains) : LocalDomains[i] = domain

JID(node, domain, resource) == [node |-> node, domain |-> domain, resource |-> resource]

IsServer(j) == j.node = "" /\ j.resource = ""

IsBare(j) == j.node # "" /\ j.resource = ""

IsFull(j) == j.resource # ""

IsFullWithServer(j) == j.node = "" /\ j.resource # ""

IsFullWithUser(j) == j.node # "" /\ j.resource # ""

ToBareJID(j) == JID(j.node, j.domain, "")

\* j.Matches(j2, opts): the components named in opts are compared
Matches(j, j2, opts) ==
    /\ ("node" \in opts => j.node = j2.node)
    /\ ("domain" \in opts => j.domain = j2.domain)
    /\ ("resource" \in opts => j.resource = j2.resource)

\* Index of the first occurrence of token t in the string str, 0 when absent.
\* A JID string is a sequence of tokens: the parts and the separators "@", "/".
IndexOf(str, t) ==
    IF \E i \in 1..Len(str) : str[i] = t
    THEN CHOOSE i \in 1..Len(str) : str[i] = t /\ \A k \in 1..(i - 1) : str[k] # t
    ELSE 0

\* xml.NewJIDString(str, true): node before "@", resource after "/", domain between
NewJIDString(str) ==
    LET at == IndexOf(str, "@")
        slash == IndexOf(str, "/")
        node == IF at > 1 THEN str[at - 1] ELSE ""
        domain == str[at + 1]
        resource == IF slash > 0 /\ slash < Len(str) THEN str[slash + 1] ELSE ""
    IN JID(node, domain, resource)

\* The client streams of the model: the values their Stream methods return.
\* s3 is bound to the same resource as s1; s5 is a connection that named a
\* domain the server does not serve and has no resource bound.
StreamInfo ==
    [s1 |-> [id |-> "id1", username |-> "alice", domain |-> "example.org", resource |-> "phone"],
     s2 |-> [id |-> "id2", username |-> "alice", domain |-> "example.org", resource |-> "laptop"],
     s3 |-> [id |-> "id3", username |-> "alice", domain |-> "example.org", resource |-> "phone"],
     s4 |-> [id |-> "id4", username |-> "bob", domain |-> "example.org", resource |-> "phone"],
     s5 |-> [id |-> "id5", username |-> "", domain |-> "remote.net", resource |-> ""]]

Streams == DOMAIN StreamInfo

ID(s) == StreamInfo[s].id

Username(s) == StreamInfo[s].username

Domain(s) == StreamInfo[s].domain

Resource(s) == StreamInfo[s].resource

StreamJID(s) == JID(Username(s), Domain(s), Resource(s))

----------------------------------------------------------------------------
(* Go maps *)

EmptyMap == [k \in {} |-> k]

MapPut(m, key, val) == [k \in DOMAIN m \cup {key} |-> IF k = key THEN val ELSE m[k]]

MapDelete(m, key) == [k \in DOMAIN m \ {key} |-> m[k]]

\* m[key] of a map of slices: nil (the empty sequence) when the key is absent
MapGet(m, key) == IF key \in DOMAIN m THEN m[key] ELSE <<>>

RECURSIVE SumLen(_, _)
SumLen(m, keys) ==
    IF keys = {} THEN 0
    ELSE LET k == CHOOSE x \in keys : TRUE
         IN Len(m[k]) + SumLen(m, keys \ {k})

\* the number of entries in all the lists of authedStms
AuthedCount == SumLen(authedStms, DOMAIN authedStms)

\* the streams that are an element of some authedStms list
AuthedSet == UNION {Range(authedStms[u]) : u \in DOMAIN authedStms}

----------------------------------------------------------------------------
(* Lifecycle operations *)

\* the error RegisterStream returns ("nil": none)
RegisterStreamErr(s) ==
    IF ~IsLocalDomain(Domain(s)) THEN "invalid domain"
    ELSE IF ID(s) \in DOMAIN stms THEN "stream already registered"
    ELSE "nil"

RegisterStream(s) ==
    /\ stms' = IF RegisterStreamErr(s) = "nil" THEN MapPut(stms, ID(s), s) ELSE stms
    /\ UNCHANGED <<authedStms, blockLists>>

\* append(authedStms[:i], authedStms[i+1:]...) for the first i whose
\* Resource() is res; the list as it is when there is none
RemoveFirstWithResource(list, res) ==
    LET hits == {i \in 1..Len(list) : Resource(list[i]) = res}
    IN IF hits = {} THEN list
       ELSE LET i == CHOOSE h \in hits : \A k \in hits : h <= k
            IN SubSeq(list, 1, i - 1) \o SubSeq(list, i + 1, Len(list))

\* the error UnregisterStream returns
UnregisterStreamErr(s) == IF ID(s) \notin DOMAIN stms THEN "stream not found" ELSE "nil"

\* UnregisterStream without the delete(m.stms, stm.ID()) of line 169
UnregisterStream_KeepsStream(s) ==
    IF UnregisterStreamErr(s) # "nil"
    THEN UNCHANGED <<stms, authedStms, blockLists>>
    ELSE /\ authedStms' =
                IF Username(s) \in DOMAIN authedStms
                THEN LET rest == RemoveFirstWithResource(authedStms[Username(s)], Resource(s))
                     IN IF Len(rest) > 0
                        THEN MapPut(authedStms, Username(s), rest)
                        ELSE MapDelete(authedStms, Username(s))
                ELSE authedStms
         /\ UNCHANGED <<stms, blockLists>>

UnregisterStream(s) ==
    IF UnregisterStreamErr(s) # "nil"
    THEN UNCHANGED <<stms, authedStms, blockLists>>
    ELSE /\ authedStms' =
                IF Username(s) \in DOMAIN authedStms
                THEN LET rest == RemoveFirstWithResource(authedStms[Username(s)], Resource(s))
                     IN IF Len(rest) > 0
                        THEN MapPut(authedStms, Username(s), rest)
                        ELSE MapDelete(authedStms, Username(s))
                ELSE authedStms
         /\ stms' = MapDelete(stms, ID(s))
         /\ UNCHANGED blockLists

\* AuthenticateStreamErr without the check of the resource (line 178)
AuthenticateStreamErr_NoResourceCheck(s) == "nil"

\* the error AuthenticateStream returns
AuthenticateStreamErr(s) == IF Resource(s) = "" THEN "resource not yet assigned" ELSE "nil"

AuthenticateStream(s) ==
    /\ authedStms' =
          IF AuthenticateStreamErr(s) # "nil" THEN authedStms
          ELSE IF Username(s) \in DOMAIN authedStms
               THEN MapPut(authedStms, Username(s), Append(authedStms[Username(s)], s))
               ELSE MapPut(authedStms, Username(s), <<s>>)
    /\ UNCHANGED <<stms, blockLists>>

ReloadBlockList(username) ==
    /\ blockLists' = MapDelete(blockLists, username)
    /\ UNCHANGED <<stms, authedStms>>

----------------------------------------------------------------------------
(* Block lists *)

ErrNotExistingAccount == "c2s: account does not exist"

ErrResourceNotFound == "c2s: resource not found"

ErrNotAuthenticated == "c2s: user not authenticated"

ErrBlockedJID == "c2s: destination jid is blocked"

\* the components a sender must share with a blocked JID of each shape
JidMatchesBlockedJID(jid, blockedJID) ==
    IF IsFullWithUser(blockedJID) THEN Matches(jid, blockedJID, {"node", "domain", "resource"})
    ELSE IF IsFullWithServer(blockedJID) THEN Matches(jid, blockedJID, {"domain", "resource"})
    ELSE IF IsBare(blockedJID) THEN Matches(jid, blockedJID, {"node", "domain"})
    ELSE Matches(jid, blockedJID, {"domain"})

\* the loop of IsBlockedJID over the list getBlockList returned
MatchesBlockList(jid, bl) == \E i \in 1..Len(bl) : JidMatchesBlockedJID(jid, bl[i])

\* the list getBlockList builds of the items the storage returned
ParseBlockList(items) == [i \in 1..Len(items) |-> NewJIDString(items[i])]

\* AfterBlockList where route goes on whatever the list holds
AfterBlockList_NeverBlocks(f, bl) ==
    IF f.op = "IsBlockedJID"
    THEN [f EXCEPT !.pc = "done", !.bl = bl,
                   !.ret = IF MatchesBlockList(f.jid, bl) THEN "true" ELSE "false"]
    ELSE [f EXCEPT !.pc = "resolve", !.bl = bl]

\* A goroutine's frame once getBlockList has returned bl: IsBlockedJID
\* returns whether the list matches, and route returns ErrBlockedJID or goes
\* on to resolve the recipients.
AfterBlockList(f, bl) ==
    IF f.op = "IsBlockedJID"
    THEN [f EXCEPT !.pc = "done", !.bl = bl,
                   !.ret = IF MatchesBlockList(f.jid, bl) THEN "true" ELSE "false"]
    ELSE IF MatchesBlockList(f.jid, bl)
         THEN [f EXCEPT !.pc = "done", !.bl = bl, !.ret = ErrBlockedJID]
         ELSE [f EXCEPT !.pc = "resolve", !.bl = bl]

----------------------------------------------------------------------------
(* Recipient resolution and delivery *)

\* the orders in which a range over a Go map may visit the keys
KeyOrders(keys) ==
    {o \in [1..Cardinality(keys) -> keys] : \A i, k \in 1..Cardinality(keys) : o[i] = o[k] => i = k}

RECURSIVE Flatten(_, _)
Flatten(m, order) ==
    IF Len(order) = 0 THEN <<>> ELSE m[order[1]] \o Flatten(m, Tail(order))

\* StreamsMatchingJID that ranges over every user's list and leaves the node
\* out of the match
StreamsMatchingJID_AllUsers(jid, order) ==
    IF ~IsLocalDomain(jid.domain) THEN <<>>
    ELSE LET opts == {"domain"} \cup (IF IsFull(jid) THEN {"resource"} ELSE {})
             Test(s) == Matches(StreamJID(s), jid, opts)
         IN SelectSeq(Flatten(authedStms, order), Test)

\* StreamsMatchingJID(jid), the keys of authedStms visited in the given order
StreamsMatchingJID(jid, order) ==
    IF ~IsLocalDomain(jid.domain) THEN <<>>
    ELSE LET opts == {"domain"} \cup (IF IsFull(jid) THEN {"resource"} ELSE {})
                                \cup (IF jid.node # "" THEN {"node"} ELSE {})
             Test(s) == Matches(StreamJID(s), jid, opts)
         IN IF jid.node # ""
            THEN SelectSeq(MapGet(authedStms, jid.node), Test)
            ELSE SelectSeq(Flatten(authedStms, order), Test)

\* what Presence() returns: <<>> for nil, <<p>> for a presence of priority p
PresenceValues == {<<>>, <<MinInt8>>, <<0>>, <<MaxInt8>>}

\* the loop of lines 296-302 from index i on
RECURSIVE HighestFrom(_, _, _, _, _)
HighestFrom(rcps, pres, i, best, highestPriority) ==
    IF i > Len(rcps) THEN best
    ELSE LET p == pres[rcps[i]]
         IN IF Len(p) > 0 /\ p[1] > highestPriority
            THEN HighestFrom(rcps, pres, i + 1, i, p[1])
            ELSE HighestFrom(rcps, pres, i + 1, best, highestPriority)

\* the index in rcps of the stream a message to a bare JID is sent to
HighestPriorityIndex(rcps, pres) ==
    HighestFrom(rcps, pres, 2, 1, IF Len(pres[rcps[1]]) > 0 THEN pres[rcps[1]][1] ELSE 0)

\* Deliveries without the full-JID branch of lines 279-287
Deliveries_IgnoresResource(elem, rcps, pres) ==
    IF elem.kind = "message" THEN <<rcps[HighestPriorityIndex(rcps, pres)]>> ELSE rcps

\* Deliveries where the broadcast of lines 305-310 stops after the first recipient
Deliveries_FirstOnly(elem, rcps, pres) ==
    IF IsFullWithUser(elem.to)
    THEN LET hits == {i \in 1..Len(rcps) : Resource(rcps[i]) = elem.to.resource}
         IN IF hits = {} THEN <<>>
            ELSE <<rcps[CHOOSE h \in hits : \A k \in hits : h <= k]>>
    ELSE IF elem.kind = "message" THEN <<rcps[HighestPriorityIndex(rcps, pres)]>>
    ELSE <<rcps[1]>>

\* The streams route calls SendElement on, in order, for a non-empty rcps.
Deliveries(elem, rcps, pres) ==
    IF IsFullWithUser(elem.to)
    THEN LET hits == {i \in 1..Len(rcps) : Resource(rcps[i]) = elem.to.resource}
         IN IF hits = {} THEN <<>>
            ELSE <<rcps[CHOOSE h \in hits : \A k \in hits : h <= k]>>
    ELSE IF elem.kind = "message" THEN <<rcps[HighestPriorityIndex(rcps, pres)]>>
    ELSE rcps

\* what route returns for a non-empty rcps
DeliverRet(elem, rcps) ==
    IF IsFullWithUser(elem.to) /\ \A i \in 1..Len(rcps) : Resource(rcps[i]) # elem.to.resource
    THEN ErrResourceNotFound
    ELSE "nil"

\* the answers of the storage's UserExists
StorageErrors == {"storage: timeout", "storage: closed"}

NoAnswer == [asked |-> FALSE, exists |-> FALSE, err |-> "nil"]

UserExistsAnswers ==
    {[asked |-> TRUE, exists |-> x, err |-> "nil"] : x \in BOOLEAN}
        \cup {[asked |-> TRUE, exists |-> FALSE, err |-> x] : x \in StorageErrors}

\* NoRecipientsRet with the two accounts' errors swapped
NoRecipientsRet_Swapped(ue) ==
    IF ue.err # "nil" THEN ue.err
    ELSE IF ue.exists THEN ErrNotExistingAccount
    ELSE ErrNotAuthenticated

\* what route returns when rcps is empty, from the answer of UserExists
NoRecipientsRet(ue) ==
    IF ue.err # "nil" THEN ue.err
    ELSE IF ue.exists THEN ErrNotAuthenticated
    ELSE ErrNotExistingAccount

----------------------------------------------------------------------------
(* Initial state and the registry on its own *)

NoCall == [op |-> "none", stm |-> "none", err |-> "nil"]

NoStanza == [kind |-> "none", from |-> JID("", "", ""), to |-> JID("", "", "")]

\* a goroutine that is in no call of the manager
Idle == [pc |-> "idle"]

Goroutines == {"g1", "g2"}

\* the goroutines that call Route, MustRoute and IsBlockedJID
Callers == {"g1"}

\* the JID strings a block list holds, as the token sequences NewJIDString parses
BobBare == <<"bob", "@", "example.org">>

\* the users whose block lists the storage holds
BlockListOwners == {"alice", "bob"}

\* a nil *Manager
Nil == [cfg |-> "none", n |-> 0]

\* an RWMutex nobody holds
Unlocked == [w |-> "none", r |-> {}]

\* the names DoOnce is called with
Handlers == {"h1", "h2"}

\* NewContext (lines 20-26): the maps are made empty; no goroutine is in a call
InitContext ==
    /\ mu = Unlocked
    /\ onceHandlers = {}
    /\ ctxm = EmptyMap
    /\ stack = [g \in Goroutines |-> <<>>]
    /\ ran = [h \in Handlers |-> 0]
    /\ onceCalled = {}

\* no handler has been made yet
NoHandler ==
    [made |-> FALSE,
     cfg |-> [AllowRegistration |-> FALSE, AllowChange |-> FALSE, AllowCancel |-> FALSE],
     stm |-> [authenticated |-> FALSE, secured |-> FALSE, username |-> ""],
     registered |-> FALSE]

\* ProcessIQ has not been called yet
NoIQ == [processed |-> FALSE]

\* No registration handler exists; the storage holds the account of alice.
InitRegister ==
    /\ xep = NoHandler
    /\ users = [u \in {"alice"} |-> "pw1"]
    /\ iqLog = NoIQ

\* The package's variables as the program starts: var inst *Manager, var
\* initialized uint32 (lines 70-74).
InitOther ==
    /\ initialized = 0
    /\ inst = Nil
    /\ instMu = Unlocked
    /\ created = 0
    /\ initReturned = FALSE
    /\ InitContext
    /\ InitRegister
    /\ lock = Unlocked

\* Initialize: the three maps are made empty (lines 82-87).  The storage holds
\* what was persisted before: alice has blocked bob.
Init ==
    /\ InitOther
    /\ stms = EmptyMap
    /\ authedStms = EmptyMap
    /\ blockLists = EmptyMap
    /\ storedBlockList = [u \in BlockListOwners |-> IF u = "alice" THEN <<BobBare>> ELSE <<>>]
    /\ frame = [g \in Goroutines |-> Idle]
    /\ lastCall = NoCall
    /\ registered = {}
    /\ lastBlocked = EmptyMap

\* A lifecycle call and what it returned.
CallRegisterStream(s) ==
    /\ RegisterStream(s)
    /\ lastCall' = [op |-> "RegisterStream", stm |-> s, err |-> RegisterStreamErr(s)]
    /\ registered' = IF RegisterStreamErr(s) = "nil" THEN registered \cup {ID(s)} ELSE registered
    /\ UNCHANGED <<storedBlockList, frame, lastBlocked, otherVars>>

CallUnregisterStream(s) ==
    /\ UnregisterStream(s)
    /\ lastCall' = [op |-> "UnregisterStream", stm |-> s, err |-> UnregisterStreamErr(s)]
    /\ registered' = IF UnregisterStreamErr(s) = "nil" THEN registered \ {ID(s)} ELSE registered
    /\ UNCHANGED <<storedBlockList, frame, lastBlocked, otherVars>>

CallAuthenticateStream(s) ==
    /\ AuthenticateStreamErr(s) = "nil" => AuthedCount < MaxAuthed
    /\ AuthenticateStream(s)
    /\ lastCall' = [op |-> "AuthenticateStream", stm |-> s, err |-> AuthenticateStreamErr(s)]
    /\ UNCHANGED <<storedBlockList, frame, registered, lastBlocked, otherVars>>

\* The registry starts empty; the block-list cache is in one of the states a
\* load leaves it in, so that a lifecycle call has a cache to leave alone.
InitLifecycle ==
    /\ InitOther
    /\ stms = EmptyMap
    /\ authedStms = EmptyMap
    /\ blockLists \in {EmptyMap, [u \in {"alice"} |-> <<NewJIDString(BobBare)>>]}
    /\ storedBlockList = [u \in BlockListOwners |-> IF u = "alice" THEN <<BobBare>> ELSE <<>>]
    /\ frame = [g \in Goroutines |-> Idle]
    /\ lastCall = NoCall
    /\ registered = {}
    /\ lastBlocked = EmptyMap

NextLifecycle ==
    \E s \in Streams :
        \/ CallRegisterStream(s)
        \/ CallUnregisterStream(s)
        \/ CallAuthenticateStream(s)

SpecLifecycle == InitLifecycle /\ [][NextLifecycle]_vars

----------------------------------------------------------------------------
(* The steps of a call of Route, MustRoute or IsBlockedJID *)

\* the stanzas routed
Kinds == {"message", "iq"}

FromJIDs == {JID("bob", "example.org", "x"), JID("carol", "example.org", "y")}

ToJIDs ==
    {JID("alice", "example.org", ""), JID("alice", "example.org", "phone"),
     JID("alice", "example.org", "tablet"), JID("", "example.org", ""),
     JID("alice", "remote.net", "")}

Stanzas == [kind : Kinds, from : FromJIDs, to : ToJIDs]

\* the block lists the storage may hold for a user
StoredLists == {<<>>, <<BobBare>>}

\* the frame of a call that has just been made
NewFrame(op, elem, jid, username) ==
    [pc |-> "entry", op |-> op, elem |-> elem, jid |-> jid, username |-> username,
     bl |-> <<>>, rcps |-> <<>>, sent |-> <<>>, seen |-> EmptyMap, ue |-> NoAnswer,
     ret |-> "", consulted |-> FALSE, resolved |-> FALSE, reloaded |-> FALSE]

\* route up to its call of IsBlockedJID (lines 258-264); op "MustRoute" is
\* route with ignoreBlocking
RouteEntry(op, elem) ==
    LET f == NewFrame(op, elem, elem.from, elem.to.node)
    IN IF ~IsLocalDomain(elem.to.domain) THEN [f EXCEPT !.pc = "done", !.ret = "nil"]
       ELSE IF op # "MustRoute" /\ ~IsServer(elem.to)
            THEN [f EXCEPT !.pc = "gbl_read", !.consulted = TRUE]
       ELSE [f EXCEPT !.pc = "resolve"]

CallRoute(g, op, elem) ==
    /\ frame[g].pc = "idle"
    /\ frame' = [frame EXCEPT ![g] = RouteEntry(op, elem)]
    /\ UNCHANGED <<stms, authedStms, blockLists, storedBlockList, lastCall, registered, lastBlocked, otherVars>>

CallIsBlockedJID(g, jid, username) ==
    /\ frame[g].pc = "idle"
    /\ frame' = [frame EXCEPT ![g] =
                    [NewFrame("IsBlockedJID", NoStanza, jid, username)
                        EXCEPT !.pc = "gbl_read", !.consulted = TRUE]]
    /\ UNCHANGED <<stms, authedStms, blockLists, storedBlockList, lastCall, registered, lastBlocked, otherVars>>

\* getBlockList, lines 315-320: the cached list, read under the read lock
GetBlockListRead(g) ==
    /\ frame[g].pc = "gbl_read"
    /\ frame' = [frame EXCEPT ![g] =
                    IF frame[g].username \in DOMAIN blockLists
                    THEN AfterBlockList(frame[g], blockLists[frame[g].username])
                    ELSE [frame[g] EXCEPT !.pc = "gbl_fetch"]]
    /\ UNCHANGED <<stms, authedStms, blockLists, storedBlockList, lastCall, registered, lastBlocked, otherVars>>

\* getBlockList, lines 321-330: FetchBlockListItems, no lock held; on an
\* error nil is returned and nothing is cached
GetBlockListFetch(g) ==
    /\ frame[g].pc = "gbl_fetch"
    /\ \E failed \in BOOLEAN :
          frame' = [frame EXCEPT ![g] =
                       IF failed
                       THEN AfterBlockList(frame[g], <<>>)
                       ELSE [frame[g] EXCEPT
                                !.pc = "gbl_install",
                                !.bl = ParseBlockList(MapGet(storedBlockList, frame[g].username))]]
    /\ UNCHANGED <<stms, authedStms, blockLists, storedBlockList, lastCall, registered, lastBlocked, otherVars>>

\* getBlockList, lines 331-334: the list is installed under the write lock
GetBlockListInstall(g) ==
    /\ frame[g].pc = "gbl_install"
    /\ blockLists' = MapPut(blockLists, frame[g].username, frame[g].bl)
    /\ frame' = [frame EXCEPT ![g] = AfterBlockList(frame[g], frame[g].bl)]
    /\ UNCHANGED <<stms, authedStms, storedBlockList, lastCall, registered, lastBlocked, otherVars>>

\* route, lines 268-269: the recipients, collected under the read lock
Resolve(g) ==
    /\ frame[g].pc = "resolve"
    /\ \E order \in KeyOrders(DOMAIN authedStms) :
          LET rcps == StreamsMatchingJID(ToBareJID(frame[g].elem.to), order)
          IN frame' = [frame EXCEPT ![g] =
                          [frame[g] EXCEPT !.pc = IF Len(rcps) = 0 THEN "user_exists" ELSE "deliver",
                                           !.rcps = rcps, !.resolved = TRUE]]
    /\ UNCHANGED <<stms, authedStms, blockLists, storedBlockList, lastCall, registered, lastBlocked, otherVars>>

\* route, lines 270-277: no recipient, the storage is asked whether the user exists
AskUserExists(g) ==
    /\ frame[g].pc = "user_exists"
    /\ \E ue \in UserExistsAnswers :
          frame' = [frame EXCEPT ![g] =
                       [frame[g] EXCEPT !.pc = "done", !.ue = ue, !.ret = NoRecipientsRet(ue)]]
    /\ UNCHANGED <<stms, authedStms, blockLists, storedBlockList, lastCall, registered, lastBlocked, otherVars>>

\* route, lines 279-311: the SendElement calls.  A message to a bare or server
\* JID reads the Presence() of each recipient: pres is what the streams
\* return, kept in the frame as seen.
Deliver(g) ==
    /\ frame[g].pc = "deliver"
    /\ LET f == frame[g]
           reads == IF f.elem.kind = "message" /\ ~IsFullWithUser(f.elem.to)
                    THEN [Range(f.rcps) -> PresenceValues]
                    ELSE {EmptyMap}
       IN \E pres \in reads :
             frame' = [frame EXCEPT ![g] =
                          [f EXCEPT !.pc = "done", !.seen = pres,
                                    !.sent = Deliveries(f.elem, f.rcps, pres),
                                    !.ret = DeliverRet(f.elem, f.rcps)]]
    /\ UNCHANGED <<stms, authedStms, blockLists, storedBlockList, lastCall, registered, lastBlocked, otherVars>>

\* The call returns.  The result of an IsBlockedJID that no ReloadBlockList of
\* its user overlapped is remembered as the last one for its arguments.
Return(g) ==
    /\ frame[g].pc = "done"
    /\ frame' = [frame EXCEPT ![g] = Idle]
    /\ lastBlocked' =
          IF frame[g].op = "IsBlockedJID" /\ ~frame[g].reloaded
          THEN MapPut(lastBlocked, <<frame[g].jid, frame[g].username>>, frame[g].ret)
          ELSE lastBlocked
    /\ UNCHANGED <<stms, authedStms, blockLists, storedBlockList, lastCall, registered, otherVars>>

\* Lifecycle calls of other goroutines, while callers route.
StreamRegisters(s) ==
    /\ RegisterStreamErr(s) = "nil"
    /\ RegisterStream(s)
    /\ UNCHANGED <<storedBlockList, frame, lastCall, registered, lastBlocked, otherVars>>

StreamUnregisters(s) ==
    /\ UnregisterStreamErr(s) = "nil"
    /\ UnregisterStream(s)
    /\ UNCHANGED <<storedBlockList, frame, lastCall, registered, lastBlocked, otherVars>>

StreamAuthenticates(s) ==
    /\ AuthenticateStreamErr(s) = "nil"
    /\ AuthedCount < MaxAuthed
    /\ AuthenticateStream(s)
    /\ UNCHANGED <<storedBlockList, frame, lastCall, registered, lastBlocked, otherVars>>

\* The persisted block list of a user is changed.
StoreBlockList(username, items) ==
    /\ storedBlockList[username] # items
    /\ storedBlockList' = [storedBlockList EXCEPT ![username] = items]
    /\ UNCHANGED <<stms, authedStms, blockLists, frame, lastCall, registered, lastBlocked, otherVars>>

\* ReloadBlockList(username): the calls of IsBlockedJID for the user that are
\* in progress are marked, and the results remembered for the user forgotten.
CallReloadBlockList(username) ==
    /\ ReloadBlockList(username)
    /\ frame' = [g \in Goroutines |->
                    IF frame[g].pc # "idle" /\ frame[g].op = "IsBlockedJID"
                           /\ frame[g].username = username
                    THEN [frame[g] EXCEPT !.reloaded = TRUE]
                    ELSE frame[g]]
    /\ lastBlocked' = [k \in {x \in DOMAIN lastBlocked : x[2] # username} |-> lastBlocked[k]]
    /\ UNCHANGED <<storedBlockList, lastCall, registered, otherVars>>

\* the streams that come and go while callers route
RoutedStreams == {"s1", "s2", "s4"}

Lifecycle ==
    \E s \in RoutedStreams :
        \/ StreamRegisters(s)
        \/ StreamUnregisters(s)
        \/ StreamAuthenticates(s)

Storage ==
    \E username \in BlockListOwners :
        \/ \E items \in StoredLists : StoreBlockList(username, items)
        \/ CallReloadBlockList(username)

\* The router: callers route stanzas while streams come and go and block
\* lists are changed and reloaded.
Next ==
    \/ Lifecycle
    \/ \E username \in BlockListOwners : CallReloadBlockList(username)
    \/ \E g \in Callers :
          \/ \E op \in {"Route", "MustRoute"}, elem \in Stanzas : CallRoute(g, op, elem)
          \/ GetBlockListRead(g)
          \/ GetBlockListFetch(g)
          \/ GetBlockListInstall(g)
          \/ Resolve(g)
          \/ AskUserExists(g)
          \/ Deliver(g)
          \/ Return(g)

Spec == Init /\ [][Next]_vars

\* The block-list cache: callers call IsBlockedJID while streams come and go
\* and block lists are changed and reloaded.
NextBlock ==
    \/ Lifecycle
    \/ Storage
    \/ \E g \in Callers :
          \/ \E jid \in FromJIDs, username \in BlockListOwners : CallIsBlockedJID(g, jid, username)
          \/ GetBlockListRead(g)
          \/ GetBlockListFetch(g)
          \/ GetBlockListInstall(g)
          \/ Return(g)

SpecBlock == Init /\ [][NextBlock]_vars

----------------------------------------------------------------------------
(* Reloading a block list while it is being loaded *)

\* ReloadBlockList(username) returns: the calls for the user that are in
\* progress are marked, and what the storage holds for the user is remembered.
ReloadBlockListReturns(username) ==
    /\ ReloadBlockList(username)
    /\ frame' = [g \in Goroutines |->
                    IF frame[g].pc # "idle" /\ frame[g].username = username
                    THEN [frame[g] EXCEPT !.reloaded = TRUE]
                    ELSE frame[g]]
    /\ lastCall' = [op |-> "ReloadBlockList", stm |-> username, err |-> "nil",
                    stored |-> storedBlockList[username]]
    /\ lastBlocked' = [k \in {x \in DOMAIN lastBlocked : x[2] # username} |-> lastBlocked[k]]
    /\ UNCHANGED <<storedBlockList, registered, otherVars>>

\* the message of bob to alice
BobToAlice ==
    [kind |-> "message", from |-> JID("bob", "example.org", "x"),
     to |-> JID("alice", "example.org", "")]

\* Two goroutines ask whether bob is blocked by alice and route his message
\* to her, while her persisted block list is emptied and reloaded and a
\* stream of hers authenticates.
NextReload ==
    \/ StoreBlockList("alice", <<>>)
    \/ ReloadBlockListReturns("alice")
    \/ StreamAuthenticates("s1")
    \/ \E g \in Goroutines :
          \/ CallIsBlockedJID(g, BobToAlice.from, "alice")
          \/ CallRoute(g, "Route", BobToAlice)
          \/ GetBlockListRead(g)
          \/ GetBlockListFetch(g)
          \/ GetBlockListInstall(g)
          \/ Resolve(g)
          \/ AskUserExists(g)
          \/ Deliver(g)
          \/ Return(g)

SpecReload == Init /\ [][NextReload]_vars

----------------------------------------------------------------------------
(* The manager's lock: every Lock, RLock, Unlock and RUnlock is a step *)

\* what a step that takes or releases m.lock, or runs under it, leaves alone
besideLock == <<storedBlockList, lastCall, registered, lastBlocked, singletonVars, ctxVars, xepVars>>

\* m.lock.RUnlock() left out
RUnlock_Kept(l, g) == l

\* m.lock.RUnlock() by goroutine g
RUnlock(l, g) == [l EXCEPT !.r = @ \ {g}]

\* m.lock.Unlock() by goroutine g
Unlock(l, g) == [l EXCEPT !.w = "none"]

\* getBlockList, line 315: m.lock.RLock()
GblRLock(g) ==
    /\ frame[g].pc = "gbl_read"
    /\ lock.w = "none"
    /\ lock' = [lock EXCEPT !.r = @ \cup {g}]
    /\ frame' = [frame EXCEPT ![g].pc = "gbl_read_locked"]
    /\ UNCHANGED <<mgrVars, besideLock>>

\* getBlockList, line 316: bl := m.blockLists[username]
GblReadLocked(g) ==
    /\ frame[g].pc = "gbl_read_locked"
    /\ frame' = [frame EXCEPT ![g] =
                    IF frame[g].username \in DOMAIN blockLists
                    THEN [frame[g] EXCEPT !.pc = "gbl_runlock_hit",
                                          !.bl = blockLists[frame[g].username]]
                    ELSE [frame[g] EXCEPT !.pc = "gbl_runlock_miss"]]
    /\ UNCHANGED <<mgrVars, lock, besideLock>>

\* getBlockList, lines 317-320: m.lock.RUnlock(); a list that was found is returned
GblRUnlock(g) ==
    /\ frame[g].pc \in {"gbl_runlock_hit", "gbl_runlock_miss"}
    /\ lock' = RUnlock(lock, g)
    /\ frame' = [frame EXCEPT ![g] =
                    IF frame[g].pc = "gbl_runlock_hit"
                    THEN AfterBlockList(frame[g], frame[g].bl)
                    ELSE [frame[g] EXCEPT !.pc = "gbl_fetch"]]
    /\ UNCHANGED <<mgrVars, besideLock>>

\* getBlockList, line 331: m.lock.Lock()
GblLock(g) ==
    /\ frame[g].pc = "gbl_install"
    /\ lock = Unlocked
    /\ lock' = [lock EXCEPT !.w = g]
    /\ frame' = [frame EXCEPT ![g].pc = "gbl_install_locked"]
    /\ UNCHANGED <<mgrVars, besideLock>>

\* getBlockList, line 332: m.blockLists[username] = bl
GblInstallLocked(g) ==
    /\ frame[g].pc = "gbl_install_locked"
    /\ blockLists' = MapPut(blockLists, frame[g].username, frame[g].bl)
    /\ frame' = [frame EXCEPT ![g].pc = "gbl_unlock"]
    /\ UNCHANGED <<stms, authedStms, lock, besideLock>>

\* getBlockList, lines 333-334: m.lock.Unlock(); the list is returned
GblUnlock(g) ==
    /\ frame[g].pc = "gbl_unlock"
    /\ lock' = Unlock(lock, g)
    /\ frame' = [frame EXCEPT ![g] = AfterBlockList(frame[g], frame[g].bl)]
    /\ UNCHANGED <<mgrVars, besideLock>>

\* StreamsMatchingJID, line 236: m.lock.RLock()
SmjRLock(g) ==
    /\ frame[g].pc = "resolve"
    /\ lock.w = "none"
    /\ lock' = [lock EXCEPT !.r = @ \cup {g}]
    /\ frame' = [frame EXCEPT ![g].pc = "smj_locked"]
    /\ UNCHANGED <<mgrVars, besideLock>>

\* StreamsMatchingJID, lines 237-253: the matching streams are collected
SmjCollect(g) ==
    /\ frame[g].pc = "smj_locked"
    /\ \E order \in KeyOrders(DOMAIN authedStms) :
          frame' = [frame EXCEPT ![g] =
                       [frame[g] EXCEPT
                           !.pc = "smj_runlock",
                           !.rcps = StreamsMatchingJID(ToBareJID(frame[g].elem.to), order),
                           !.resolved = TRUE]]
    /\ UNCHANGED <<mgrVars, lock, besideLock>>

\* StreamsMatchingJID, lines 254-255: m.lock.RUnlock(); route goes on (line 269)
SmjRUnlock(g) ==
    /\ frame[g].pc = "smj_runlock"
    /\ lock' = RUnlock(lock, g)
    /\ frame' = [frame EXCEPT ![g].pc = IF Len(frame[g].rcps) = 0 THEN "user_exists" ELSE "deliver"]
    /\ UNCHANGED <<mgrVars, besideLock>>

\* the lifecycle operations and ReloadBlockList, which run under the write lock
LockedOps == {"RegisterStream", "UnregisterStream", "AuthenticateStream", "ReloadBlockList"}

\* The checks made before the lock is taken: the domain by RegisterStream
\* (line 130), the resource by AuthenticateStream (line 178).
PassesChecks(op, s) ==
    IF op = "RegisterStream" THEN IsLocalDomain(Domain(s))
    ELSE IF op = "AuthenticateStream" THEN Resource(s) # ""
    ELSE TRUE

\* A goroutine calls a lifecycle operation for stream s, or ReloadBlockList for
\* the user of s.
CallLocked(g, op, s) ==
    /\ frame[g].pc = "idle"
    /\ op = "AuthenticateStream" => AuthedCount < MaxAuthed
    /\ frame' = [frame EXCEPT ![g] =
                    [pc |-> IF PassesChecks(op, s) THEN "lc_lock" ELSE "done", op |-> op, stm |-> s]]
    /\ UNCHANGED <<mgrVars, lock, besideLock>>

\* lines 133, 149, 181, 207: m.lock.Lock()
LcLock(g) ==
    /\ frame[g].pc = "lc_lock"
    /\ lock = Unlocked
    /\ lock' = [lock EXCEPT !.w = g]
    /\ frame' = [frame EXCEPT ![g].pc = "lc_locked"]
    /\ UNCHANGED <<mgrVars, besideLock>>

\* the maps are read and written under the lock
LcSection(g) ==
    /\ frame[g].pc = "lc_locked"
    /\ IF frame[g].op = "RegisterStream" THEN RegisterStream(frame[g].stm)
       ELSE IF frame[g].op = "UnregisterStream" THEN UnregisterStream(frame[g].stm)
       ELSE IF frame[g].op = "AuthenticateStream" THEN AuthenticateStream(frame[g].stm)
       ELSE ReloadBlockList(Username(frame[g].stm))
    /\ frame' = [frame EXCEPT ![g].pc = "lc_unlock"]
    /\ UNCHANGED <<lock, besideLock>>

\* lines 136/140, 152/170, 187, 209: m.lock.Unlock()
LcUnlock(g) ==
    /\ frame[g].pc = "lc_unlock"
    /\ lock' = Unlock(lock, g)
    /\ frame' = [frame EXCEPT ![g].pc = "done"]
    /\ UNCHANGED <<mgrVars, besideLock>>

\* the streams of the lifecycle calls
LockStreams == {"s1", "s5"}

\* the stanzas routed: an iq to alice from bob, whom she blocks, and from carol
LockStanzas ==
    {[kind |-> "iq", from |-> from, to |-> JID("alice", "example.org", "")] : from \in FromJIDs}

\* Two goroutines call the manager; each takes its steps in the order of the
\* code, waiting where it takes the lock.
NextLock ==
    \E g \in Goroutines :
        \/ \E op \in {"Route", "MustRoute"}, elem \in LockStanzas : CallRoute(g, op, elem)
        \/ \E jid \in FromJIDs : CallIsBlockedJID(g, jid, "alice")
        \/ \E op \in LockedOps, s \in LockStreams : CallLocked(g, op, s)
        \/ GblRLock(g)
        \/ GblReadLocked(g)
        \/ GblRUnlock(g)
        \/ GetBlockListFetch(g)
        \/ GblLock(g)
        \/ GblInstallLocked(g)
        \/ GblUnlock(g)
        \/ SmjRLock(g)
        \/ SmjCollect(g)
        \/ SmjRUnlock(g)
        \/ AskUserExists(g)
        \/ Deliver(g)
        \/ LcLock(g)
        \/ LcSection(g)
        \/ LcUnlock(g)
        \/ Return(g)

SpecLock == Init /\ [][NextLock]_vars

----------------------------------------------------------------------------
(* The singleton: Initialize and Instance *)

\* the configurations Initialize is called with
Configs == {"cfgA", "cfgB"}

\* the state of the manager and its callers' histories
managerState == <<stms, authedStms, blockLists, storedBlockList, lastCall, registered, lastBlocked>>

\* what a step of Initialize or Instance leaves alone
besideSingleton == <<managerState, ctxVars, xepVars, lock>>

\* log.Fatalf has ended the process
Crashed == \E g \in Goroutines : frame[g].pc = "fatal"

\* atomic.CompareAndSwapUint32(&initialized, 0, 1) that swaps whatever the flag holds
CompareAndSwap_Always(old, new) == TRUE

\* atomic.CompareAndSwapUint32(&initialized, old, new): whether it swaps
CompareAndSwap(old, new) == initialized = old

CallInitialize(g, cfg) ==
    /\ ~Crashed
    /\ frame[g].pc = "idle"
    /\ frame' = [frame EXCEPT ![g] = [pc |-> "init_cas", op |-> "Initialize", cfg |-> cfg]]
    /\ UNCHANGED <<besideSingleton, singletonVars>>

\* line 78: the compare-and-swap; the goroutine that loses it returns
InitializeCAS(g) ==
    /\ ~Crashed
    /\ frame[g].pc = "init_cas"
    /\ IF CompareAndSwap(0, 1)
       THEN /\ initialized' = 1
            /\ frame' = [frame EXCEPT ![g].pc = "init_lock"]
       ELSE /\ initialized' = initialized
            /\ frame' = [frame EXCEPT ![g].pc = "done"]
    /\ UNCHANGED <<besideSingleton, inst, instMu, created, initReturned>>

\* line 79: instMu.Lock()
InitializeLock(g) ==
    /\ ~Crashed
    /\ frame[g].pc = "init_lock"
    /\ instMu = Unlocked
    /\ instMu' = [instMu EXCEPT !.w = g]
    /\ frame' = [frame EXCEPT ![g].pc = "init_assign"]
    /\ UNCHANGED <<besideSingleton, initialized, inst, created, initReturned>>

\* lines 82-87: inst = &Manager{cfg: cfg, ...}
InitializeAssign(g) ==
    /\ ~Crashed
    /\ frame[g].pc = "init_assign"
    /\ created < MaxCreated
    /\ inst' = [cfg |-> frame[g].cfg, n |-> created + 1]
    /\ created' = created + 1
    /\ frame' = [frame EXCEPT ![g].pc = "init_unlock"]
    /\ UNCHANGED <<besideSingleton, initialized, instMu, initReturned>>

\* line 80: the deferred instMu.Unlock()
InitializeUnlock(g) ==
    /\ ~Crashed
    /\ frame[g].pc = "init_unlock"
    /\ instMu' = [instMu EXCEPT !.w = "none"]
    /\ frame' = [frame EXCEPT ![g].pc = "done"]
    /\ UNCHANGED <<besideSingleton, initialized, inst, created, initReturned>>

\* A call of Instance; after tells whether a call of Initialize had returned.
CallInstance(g) ==
    /\ ~Crashed
    /\ frame[g].pc = "idle"
    /\ frame' = [frame EXCEPT ![g] =
                    [pc |-> "inst_rlock", op |-> "Instance", after |-> initReturned, ret |-> Nil]]
    /\ UNCHANGED <<besideSingleton, singletonVars>>

\* line 93: instMu.RLock()
InstanceRLock(g) ==
    /\ ~Crashed
    /\ frame[g].pc = "inst_rlock"
    /\ instMu.w = "none"
    /\ instMu' = [instMu EXCEPT !.r = @ \cup {g}]
    /\ frame' = [frame EXCEPT ![g].pc = "inst_read"]
    /\ UNCHANGED <<besideSingleton, initialized, inst, created, initReturned>>

\* lines 96-99: a nil inst is fatal, any other is returned
InstanceRead(g) ==
    /\ ~Crashed
    /\ frame[g].pc = "inst_read"
    /\ frame' = [frame EXCEPT ![g] =
                    IF inst = Nil
                    THEN [frame[g] EXCEPT !.pc = "fatal"]
                    ELSE [frame[g] EXCEPT !.pc = "inst_runlock", !.ret = inst]]
    /\ UNCHANGED <<besideSingleton, singletonVars>>

\* line 94: the deferred instMu.RUnlock()
InstanceRUnlock(g) ==
    /\ ~Crashed
    /\ frame[g].pc = "inst_runlock"
    /\ instMu' = [instMu EXCEPT !.r = @ \ {g}]
    /\ frame' = [frame EXCEPT ![g].pc = "done"]
    /\ UNCHANGED <<besideSingleton, initialized, inst, created, initReturned>>

\* Initialize or Instance returns to its caller.
ReturnSingleton(g) ==
    /\ ~Crashed
    /\ frame[g].pc = "done"
    /\ frame' = [frame EXCEPT ![g] = Idle]
    /\ initReturned' = (initReturned \/ frame[g].op = "Initialize")
    /\ UNCHANGED <<besideSingleton, initialized, inst, instMu, created>>

\* Goroutines call Initialize and Instance until log.Fatalf ends the process.
NextSingleton ==
    \E g \in Goroutines :
        \/ \E cfg \in Configs : CallInitialize(g, cfg)
        \/ InitializeCAS(g)
        \/ InitializeLock(g)
        \/ InitializeAssign(g)
        \/ InitializeUnlock(g)
        \/ CallInstance(g)
        \/ InstanceRLock(g)
        \/ InstanceRead(g)
        \/ InstanceRUnlock(g)
        \/ ReturnSingleton(g)

SpecSingleton == Init /\ [][NextSingleton]_vars

----------------------------------------------------------------------------
(* The stream context: DoOnce, SetString and String *)

\* what a step of a Context method leaves alone
besideContext == <<managerState, frame, singletonVars, xepVars, lock>>

\* The call the function given to DoOnce makes of the Context: the function
\* of h1 calls DoOnce with h2, the function of h2 stores a string.
HandlerBody(h) ==
    IF h = "h1" THEN [op |-> "DoOnce", name |-> "h2"] ELSE [op |-> "SetString", name |-> "k"]

\* the calls goroutines make of the Context
ContextCalls ==
    {[op |-> "DoOnce", name |-> h] : h \in Handlers} \cup {[op |-> "String", name |-> "k"]}

\* the frame of a call at the point where it takes ctx.mu
NewContextFrame(call) ==
    [pc |-> IF call.op = "DoOnce" THEN "once_lock"
            ELSE IF call.op = "SetString" THEN "w_lock" ELSE "r_lock",
     op |-> call.op, name |-> call.name, ret |-> ""]

\* the innermost call of goroutine g
Top(g) == Head(stack[g])

\* the stack of goroutine g with its innermost call at pc
TopAt(g, pc) == [stack EXCEPT ![g] = <<[Top(g) EXCEPT !.pc = pc]>> \o Tail(stack[g])]

CallContext(g, call) ==
    /\ stack[g] = <<>>
    /\ stack' = [stack EXCEPT ![g] = <<NewContextFrame(call)>>]
    /\ onceCalled' = IF call.op = "DoOnce" THEN onceCalled \cup {call.name} ELSE onceCalled
    /\ UNCHANGED <<besideContext, mu, onceHandlers, ctxm, ran>>

\* line 125: ctx.mu.Lock()
DoOnceLock(g) ==
    /\ stack[g] # <<>>
    /\ Top(g).pc = "once_lock"
    /\ mu = Unlocked
    /\ mu' = [mu EXCEPT !.w = g]
    /\ stack' = TopAt(g, "once_check")
    /\ UNCHANGED <<besideContext, onceHandlers, ctxm, ran, onceCalled>>

\* line 128 left out: the name is not recorded
OnceHandlersAfter_NoInsert(handler) == onceHandlers

\* line 128: ctx.onceHandlers[handler] = struct{}{}
OnceHandlersAfter(handler) == onceHandlers \cup {handler}

\* lines 126-128: the name is looked up and, when absent, recorded
DoOnceCheck(g) ==
    /\ stack[g] # <<>>
    /\ Top(g).pc = "once_check"
    /\ IF Top(g).name \in onceHandlers
       THEN /\ onceHandlers' = onceHandlers
            /\ stack' = TopAt(g, "once_unlock_skip")
       ELSE /\ onceHandlers' = OnceHandlersAfter(Top(g).name)
            /\ stack' = TopAt(g, "once_unlock_run")
    /\ UNCHANGED <<besideContext, mu, ctxm, ran, onceCalled>>

\* line 129, or line 133: ctx.mu.Unlock()
DoOnceUnlock(g) ==
    /\ stack[g] # <<>>
    /\ Top(g).pc \in {"once_unlock_run", "once_unlock_skip"}
    /\ mu' = [mu EXCEPT !.w = "none"]
    /\ stack' = TopAt(g, IF Top(g).pc = "once_unlock_run" THEN "once_f" ELSE "ret")
    /\ UNCHANGED <<besideContext, onceHandlers, ctxm, ran, onceCalled>>

\* line 130: f() is run; it makes its call of the Context
DoOnceRunF(g) ==
    /\ stack[g] # <<>>
    /\ Top(g).pc = "once_f"
    /\ ran[Top(g).name] < MaxRuns
    /\ ran' = [ran EXCEPT ![Top(g).name] = @ + 1]
    /\ LET call == HandlerBody(Top(g).name)
       IN /\ stack' = [stack EXCEPT ![g] =
                          <<NewContextFrame(call), [Top(g) EXCEPT !.pc = "in_f"]>> \o Tail(stack[g])]
          /\ onceCalled' = IF call.op = "DoOnce" THEN onceCalled \cup {call.name} ELSE onceCalled
    /\ UNCHANGED <<besideContext, mu, onceHandlers, ctxm>>

\* inWriteLock, line 137: ctx.mu.Lock()
WriteLock(g) ==
    /\ stack[g] # <<>>
    /\ Top(g).pc = "w_lock"
    /\ mu = Unlocked
    /\ mu' = [mu EXCEPT !.w = g]
    /\ stack' = TopAt(g, "w_f")
    /\ UNCHANGED <<besideContext, onceHandlers, ctxm, ran, onceCalled>>

\* SetString, line 52: ctx.m[key] = s
WriteF(g) ==
    /\ stack[g] # <<>>
    /\ Top(g).pc = "w_f"
    /\ ctxm' = MapPut(ctxm, Top(g).name, "done")
    /\ stack' = TopAt(g, "w_unlock")
    /\ UNCHANGED <<besideContext, mu, onceHandlers, ran, onceCalled>>

\* inWriteLock, line 139: ctx.mu.Unlock()
WriteUnlock(g) ==
    /\ stack[g] # <<>>
    /\ Top(g).pc = "w_unlock"
    /\ mu' = [mu EXCEPT !.w = "none"]
    /\ stack' = TopAt(g, "ret")
    /\ UNCHANGED <<besideContext, onceHandlers, ctxm, ran, onceCalled>>

\* inReadLock, line 143: ctx.mu.RLock()
ReadLock(g) ==
    /\ stack[g] # <<>>
    /\ Top(g).pc = "r_lock"
    /\ mu.w = "none"
    /\ mu' = [mu EXCEPT !.r = @ \cup {g}]
    /\ stack' = TopAt(g, "r_f")
    /\ UNCHANGED <<besideContext, onceHandlers, ctxm, ran, onceCalled>>

\* String, lines 58-64: the string stored under the key, "" when there is none
ReadF(g) ==
    /\ stack[g] # <<>>
    /\ Top(g).pc = "r_f"
    /\ stack' = [stack EXCEPT ![g] =
                    <<[Top(g) EXCEPT !.pc = "r_unlock",
                                     !.ret = IF Top(g).name \in DOMAIN ctxm
                                             THEN ctxm[Top(g).name] ELSE ""]>> \o Tail(stack[g])]
    /\ UNCHANGED <<besideContext, mu, onceHandlers, ctxm, ran, onceCalled>>

\* inReadLock, line 145: ctx.mu.RUnlock()
ReadUnlock(g) ==
    /\ stack[g] # <<>>
    /\ Top(g).pc = "r_unlock"
    /\ mu' = [mu EXCEPT !.r = @ \ {g}]
    /\ stack' = TopAt(g, "ret")
    /\ UNCHANGED <<besideContext, onceHandlers, ctxm, ran, onceCalled>>

\* The innermost call returns; when it was made by the function of a DoOnce,
\* the function returns too (line 131).
ContextReturn(g) ==
    /\ stack[g] # <<>>
    /\ Top(g).pc = "ret"
    /\ stack' = [stack EXCEPT ![g] =
                    IF Len(stack[g]) > 1
                    THEN <<[stack[g][2] EXCEPT !.pc = "ret"]>> \o Tail(Tail(stack[g]))
                    ELSE <<>>]
    /\ UNCHANGED <<besideContext, mu, onceHandlers, ctxm, ran, onceCalled>>

\* the steps of the calls in progress
ContextSteps ==
    \E g \in Goroutines :
        \/ DoOnceLock(g)
        \/ DoOnceCheck(g)
        \/ DoOnceUnlock(g)
        \/ DoOnceRunF(g)
        \/ WriteLock(g)
        \/ WriteF(g)
        \/ WriteUnlock(g)
        \/ ReadLock(g)
        \/ ReadF(g)
        \/ ReadUnlock(g)
        \/ ContextReturn(g)

\* Goroutines call DoOnce and String on one Context.
NextContext ==
    \E g \in Goroutines :
        \/ \E call \in ContextCalls : CallContext(g, call)
        \/ DoOnceLock(g)
        \/ DoOnceCheck(g)
        \/ DoOnceUnlock(g)
        \/ DoOnceRunF(g)
        \/ WriteLock(g)
        \/ WriteF(g)
        \/ WriteUnlock(g)
        \/ ReadLock(g)
        \/ ReadF(g)
        \/ ReadUnlock(g)
        \/ ContextReturn(g)

SpecContext == Init /\ [][NextContext]_vars

----------------------------------------------------------------------------
(* In-band registration: the XEPRegister handler of a stream *)

\* what a step of the handler or of its stream leaves alone
besideRegister == <<managerState, frame, singletonVars, ctxVars, lock>>

\* a child element of the query that is not there
Absent == <<>>

\* the children of a query element: username and password (<<text>> when
\* present), and remove
Query(username, password, remove) ==
    [username |-> username, password |-> password, remove |-> remove]

Queries ==
    {Query(Absent, Absent, FALSE), Query(<<"alice">>, <<"pw2">>, FALSE),
     Query(<<"bob">>, <<"pw2">>, FALSE), Query(<<"">>, <<"pw2">>, FALSE),
     Query(<<"bob">>, Absent, FALSE), Query(<<"bob">>, <<"">>, FALSE),
     Query(Absent, Absent, TRUE), Query(<<"alice">>, Absent, TRUE)}

\* The IQs given to ProcessIQ: the type, the to JID, and the query.
IQs ==
    {[type |-> type, to |-> to, username |-> q.username, password |-> q.password,
      remove |-> q.remove] :
        type \in {"get", "set", "result"},
        to \in {JID("", "example.org", ""), JID("alice", "example.org", ""),
                JID("alice", "example.org", "phone")},
        q \in Queries}

\* query.Elements().Count()
Count(iq) ==
    (IF iq.username # Absent THEN 1 ELSE 0) + (IF iq.password # Absent THEN 1 ELSE 0)
        + (IF iq.remove THEN 1 ELSE 0)

\* A call of the storage: the function and the username it is given.
StorageCall(fn, username) == [fn |-> fn, username |-> username]

\* What a call of ProcessIQ does: the elements sent to the stream, the calls
\* of the storage, and the latch and the accounts it leaves.
Outcome(replies, calls, latch, accounts) ==
    [replies |-> replies, calls |-> calls, registered |-> latch, users |-> accounts]

\* one reply and nothing else
Reply(r) == Outcome(<<r>>, <<>>, xep.registered, users)

\* isValidToJid that takes a bare JID of the stream's user on any stream
isValidToJid_AnyStream(jid) ==
    IsServer(jid) \/ (IsBare(jid) /\ jid.node = xep.stm.username)

isValidToJid(jid) ==
    IF xep.stm.authenticated THEN IsServer(jid)
    ELSE IsServer(jid) \/ (IsBare(jid) /\ jid.node = xep.stm.username)

sendRegistrationFields(iq) ==
    IF Count(iq) > 0 THEN Reply("bad-request") ELSE Reply("result-fields")

\* registerNewUser without line 139: the latch is never set
registerNewUser_NoLatch(iq, fail) ==
    IF iq.username = Absent \/ iq.password = Absent
          \/ iq.username = <<"">> \/ iq.password = <<"">>
    THEN Reply("bad-request")
    ELSE LET u == iq.username[1]
             exists == StorageCall("UserExists", u)
             insert == StorageCall("InsertOrUpdateUser", u)
         IN IF fail = 1
            THEN Outcome(<<"internal-server-error">>, <<exists>>, xep.registered, users)
            ELSE IF u \in DOMAIN users
            THEN Outcome(<<"conflict">>, <<exists>>, xep.registered, users)
            ELSE IF fail = 2
            THEN Outcome(<<"internal-server-error">>, <<exists, insert>>, xep.registered, users)
            ELSE Outcome(<<"result">>, <<exists, insert>>, xep.registered,
                         MapPut(users, u, iq.password[1]))

\* fail is the storage call of this ProcessIQ that returns an error: the
\* first, the second, or (0) none.
registerNewUser(iq, fail) ==
    IF iq.username = Absent \/ iq.password = Absent
          \/ iq.username = <<"">> \/ iq.password = <<"">>
    THEN Reply("bad-request")
    ELSE LET u == iq.username[1]
             exists == StorageCall("UserExists", u)
             insert == StorageCall("InsertOrUpdateUser", u)
         IN IF fail = 1
            THEN Outcome(<<"internal-server-error">>, <<exists>>, xep.registered, users)
            ELSE IF u \in DOMAIN users
            THEN Outcome(<<"conflict">>, <<exists>>, xep.registered, users)
            ELSE IF fail = 2
            THEN Outcome(<<"internal-server-error">>, <<exists, insert>>, xep.registered, users)
            ELSE Outcome(<<"result">>, <<exists, insert>>, TRUE, MapPut(users, u, iq.password[1]))

cancelRegistration(iq, fail) ==
    IF ~xep.cfg.AllowCancel THEN Reply("not-allowed")
    ELSE IF Count(iq) > 1 THEN Reply("bad-request")
    ELSE LET delete == StorageCall("DeleteUser", xep.stm.username)
         IN IF fail = 1
            THEN Outcome(<<"internal-server-error">>, <<delete>>, xep.registered, users)
            ELSE Outcome(<<"result">>, <<delete>>, xep.registered,
                         MapDelete(users, xep.stm.username))

\* changePassword without the check of the secured stream (lines 168-172)
changePassword_Unsecured(password, username, fail) ==
    IF ~xep.cfg.AllowChange THEN Reply("not-allowed")
    ELSE IF username # xep.stm.username THEN Reply("not-allowed")
    ELSE LET fetch == StorageCall("FetchUser", username)
             insert == StorageCall("InsertOrUpdateUser", username)
         IN IF fail = 1
            THEN Outcome(<<"internal-server-error">>, <<fetch>>, xep.registered, users)
            ELSE IF username \notin DOMAIN users
            THEN Outcome(<<"result">>, <<fetch>>, xep.registered, users)
            ELSE IF users[username] = password
            THEN Outcome(<<"result">>, <<fetch>>, xep.registered, users)
            ELSE IF fail = 2
            THEN Outcome(<<"internal-server-error">>, <<fetch, insert>>, xep.registered, users)
            ELSE Outcome(<<"result">>, <<fetch, insert>>, xep.registered,
                         MapPut(users, username, password))

changePassword(password, username, fail) ==
    IF ~xep.cfg.AllowChange THEN Reply("not-allowed")
    ELSE IF username # xep.stm.username THEN Reply("not-allowed")
    ELSE IF ~xep.stm.secured THEN Reply("not-authorized")
    ELSE LET fetch == StorageCall("FetchUser", username)
             insert == StorageCall("InsertOrUpdateUser", username)
         IN IF fail = 1
            THEN Outcome(<<"internal-server-error">>, <<fetch>>, xep.registered, users)
            ELSE IF username \notin DOMAIN users
            THEN Outcome(<<"result">>, <<fetch>>, xep.registered, users)
            ELSE IF users[username] = password
            THEN Outcome(<<"result">>, <<fetch>>, xep.registered, users)
            ELSE IF fail = 2
            THEN Outcome(<<"internal-server-error">>, <<fetch, insert>>, xep.registered, users)
            ELSE Outcome(<<"result">>, <<fetch, insert>>, xep.registered,
                         MapPut(users, username, password))

\* what ProcessIQ does with iq (lines 54-97)
ProcessIQOutcome(iq, fail) ==
    IF ~isValidToJid(iq.to) THEN Reply("forbidden")
    ELSE IF ~xep.stm.authenticated
    THEN IF iq.type = "get"
         THEN IF ~xep.cfg.AllowRegistration THEN Reply("not-allowed")
              ELSE sendRegistrationFields(iq)
         ELSE IF iq.type = "set"
         THEN IF ~xep.registered THEN registerNewUser(iq, fail)
              ELSE Reply("not-acceptable")
         ELSE Reply("bad-request")
    ELSE IF iq.type = "set"
    THEN IF iq.remove THEN cancelRegistration(iq, fail)
         ELSE IF iq.username # Absent /\ iq.password # Absent
         THEN changePassword(iq.password[1], iq.username[1], fail)
         ELSE Reply("bad-request")
    ELSE Reply("bad-request")

\* the configurations of the module
RegisterConfigs == [AllowRegistration : BOOLEAN, AllowChange : BOOLEAN, AllowCancel : BOOLEAN]

\* the users a stream may name
Usernames == {"alice", "bob"}

\* New(config, stm): the handler of a stream that is not authenticated yet
New(config, username) ==
    /\ ~xep.made
    /\ xep' = [made |-> TRUE, cfg |-> config,
               stm |-> [authenticated |-> FALSE, secured |-> FALSE, username |-> username],
               registered |-> FALSE]
    /\ UNCHANGED <<besideRegister, users, iqLog>>

\* The stream is given an IQ of the registration namespace.
ProcessIQ(iq, fail) ==
    /\ xep.made
    /\ LET out == ProcessIQOutcome(iq, fail)
       IN /\ xep' = [xep EXCEPT !.registered = out.registered]
          /\ users' = out.users
          /\ iqLog' = [processed |-> TRUE, iq |-> iq, before |-> xep.registered,
                       replies |-> out.replies, calls |-> out.calls]
    /\ UNCHANGED besideRegister

\* The stream's channel becomes a secured one.  The history is of the IQs
\* processed in the stream's present state, and starts again.
StreamSecured ==
    /\ xep.made
    /\ ~xep.stm.secured
    /\ xep' = [xep EXCEPT !.stm.secured = TRUE]
    /\ iqLog' = NoIQ
    /\ UNCHANGED <<besideRegister, users>>

\* the stream's user authenticates
StreamAuthenticated(username) ==
    /\ xep.made
    /\ ~xep.stm.authenticated
    /\ xep' = [xep EXCEPT !.stm.authenticated = TRUE, !.stm.username = username]
    /\ iqLog' = NoIQ
    /\ UNCHANGED <<besideRegister, users>>

\* One handler and its stream: IQs are processed one after the other while
\* the stream is secured and authenticates.
NextRegister ==
    \/ \E config \in RegisterConfigs, username \in {"", "alice"} : New(config, username)
    \/ \E iq \in IQs, fail \in 0..2 : ProcessIQ(iq, fail)
    \/ StreamSecured
    \/ \E username \in Usernames : StreamAuthenticated(username)

SpecRegister == Init /\ [][NextRegister]_vars

----------------------------------------------------------------------------
(* The registry's properties (SpecLifecycle) *)

\* C2: whenever UnregisterStream(s) has returned success, s is absent from
\* stms and is an element of no authedStms list.  The code removes one entry,
\* the first with s's resource, so this fails for a stream authenticated
\* twice and for two streams of a user bound to one resource.
C2_UnregisteredStreamIsGone ==
    (lastCall.op = "UnregisterStream" /\ lastCall.err = "nil") =>
        /\ ID(lastCall.stm) \notin DOMAIN stms
        /\ lastCall.stm \notin AuthedSet

\* C3: every stream that is an element of an authedStms list is in stms under
\* its id.  AuthenticateStream does not look at stms, and UnregisterStream may
\* leave the stream in its list, so this fails.
C3_AuthedStreamsAreRegistered ==
    \A s \in AuthedSet : ID(s) \in DOMAIN stms /\ stms[ID(s)] = s

\* the state part of C4
AuthedListsWellFormed ==
    \A u \in DOMAIN authedStms :
        /\ Len(authedStms[u]) > 0
        /\ \A i \in 1..Len(authedStms[u]) :
              Username(authedStms[u][i]) = u /\ Resource(authedStms[u][i]) # ""

\* C4: every element of authedStms[u] has Username() = u and a non-empty
\* Resource(), no key of authedStms holds an empty list, and an
\* AuthenticateStream of a stream with an empty resource returns "resource not
\* yet assigned" and leaves authedStms as it was.
C4_AuthedListsWellFormed ==
    /\ []AuthedListsWellFormed
    /\ [][(lastCall'.op = "AuthenticateStream" /\ Resource(lastCall'.stm) = "")
            => (lastCall'.err = "resource not yet assigned" /\ authedStms' = authedStms)]_vars

\* C4's case: an AuthenticateStream was refused for its empty resource while
\* other streams are authenticated.
C4_Witness ==
    /\ lastCall.op = "AuthenticateStream"
    /\ Resource(lastCall.stm) = ""
    /\ lastCall.err = "resource not yet assigned"
    /\ AuthedCount = MaxAuthed

\* the state part of C5
StreamsAreTheRegistered ==
    /\ DOMAIN stms = registered
    /\ \A s \in Streams : ID(s) \in registered => stms[ID(s)] = s

\* C5: an id is a key of stms iff a RegisterStream of it succeeded and no later
\* UnregisterStream of it did, with its own stream as the value; a
\* RegisterStream or UnregisterStream that returns an error leaves stms,
\* authedStms and blockLists as they were; an entry of stms stays as it is
\* until an UnregisterStream of its stream returns success.
C5_StreamsAreTheRegistered ==
    /\ []StreamsAreTheRegistered
    /\ [][(lastCall'.op \in {"RegisterStream", "UnregisterStream"} /\ lastCall'.err # "nil")
            => UNCHANGED mgrVars]_vars
    /\ [][\A id \in DOMAIN stms :
            \/ id \in DOMAIN stms' /\ stms'[id] = stms[id]
            \/ /\ lastCall'.op = "UnregisterStream"
               /\ lastCall'.err = "nil"
               /\ lastCall'.stm = stms[id]]_vars

\* C5's case: a RegisterStream was refused (the id is registered already, or
\* the domain is not local) or an UnregisterStream was (the id is not
\* registered), with a block list cached and streams registered.
C5_Witness ==
    /\ lastCall.op \in {"RegisterStream", "UnregisterStream"}
    /\ lastCall.err # "nil"
    /\ Cardinality(DOMAIN stms) >= 2
    /\ DOMAIN blockLists # {}

----------------------------------------------------------------------------
(* The router's properties (Spec) *)

\* the calls of route
RouteOps == {"Route", "MustRoute"}

\* the steps of getBlockList
BlockListSteps == {"gbl_read", "gbl_fetch", "gbl_install"}

\* the priority route's caller sees for recipient s of frame f: 0 for a nil presence
SeenPriority(f, s) == IF Len(f.seen[s]) > 0 THEN f.seen[s][1] ELSE 0

\* C1: a message routed to a bare local JID with at least one recipient is
\* sent exactly once, to the first recipient, in the order of rcps, among
\* those of the highest priority, a nil presence counting as priority 0.
\* The code skips a later recipient whose presence is nil, so a first
\* recipient of negative priority keeps the message.
C1_MessageGoesToHighestPriority ==
    \A g \in Callers :
        LET f == frame[g]
        IN (f.pc = "done" /\ f.op \in RouteOps /\ f.elem.kind = "message"
                /\ IsBare(f.elem.to) /\ Len(f.rcps) > 0)
           => /\ Len(f.sent) = 1
              /\ \E i \in 1..Len(f.rcps) :
                    /\ f.sent[1] = f.rcps[i]
                    /\ \A k \in 1..Len(f.rcps) :
                          SeenPriority(f, f.rcps[k]) <= SeenPriority(f, f.rcps[i])
                    /\ \A k \in 1..(i - 1) :
                          SeenPriority(f, f.rcps[k]) < SeenPriority(f, f.rcps[i])

\* the state part of C6
OnlyRecipientsReceive ==
    \A g \in Callers :
        LET f == frame[g]
        IN (f.pc # "idle" /\ f.op \in RouteOps)
           => /\ Range(f.sent) \subseteq Range(f.rcps)
              /\ \A s \in Range(f.rcps) :
                    /\ Domain(s) = f.elem.to.domain
                    /\ f.elem.to.node # "" => Username(s) = f.elem.to.node
              /\ ~IsLocalDomain(f.elem.to.domain) => f.sent = <<>>

\* C6: Route and MustRoute call SendElement on no stream outside the
\* recipients the call resolved, which are streams authenticated at that
\* moment, of the addressed domain and, for a stanza addressed to a node, of
\* that user; a stanza to a domain that is not local is sent to no stream.
C6_OnlyRecipientsReceive ==
    /\ []OnlyRecipientsReceive
    /\ [][\A g \in Callers :
            (frame[g].pc = "resolve" /\ frame'[g].pc # "resolve")
            => /\ Range(frame'[g].rcps) \subseteq AuthedSet
               /\ \E order \in KeyOrders(DOMAIN authedStms) :
                     frame'[g].rcps = StreamsMatchingJID(ToBareJID(frame[g].elem.to), order)]_vars

\* C6's case: an iq to alice's bare JID was sent to her two streams while bob
\* is authenticated too and one of her streams has since been unregistered.
C6_Witness ==
    \E g \in Callers :
        /\ frame[g].pc = "done"
        /\ frame[g].op = "Route"
        /\ frame[g].elem.kind = "iq"
        /\ frame[g].elem.to = JID("alice", "example.org", "")
        /\ Len(frame[g].sent) = 2
        /\ "s4" \in AuthedSet
        /\ ~(Range(frame[g].sent) \subseteq AuthedSet)

\* C8: a route that resolved its recipients and found none calls SendElement
\* on no stream and returns the storage's error if UserExists failed,
\* ErrNotAuthenticated if the user exists and ErrNotExistingAccount if not;
\* UserExists is asked in no other case.
C8_NoRecipients ==
    \A g \in Callers :
        LET f == frame[g]
        IN (f.pc = "done" /\ f.op \in RouteOps)
           => /\ (f.resolved /\ Len(f.rcps) = 0)
                 => /\ f.sent = <<>>
                    /\ f.ue.asked
                    /\ f.ue.err # "nil" => f.ret = f.ue.err
                    /\ (f.ue.err = "nil" /\ f.ue.exists) => f.ret = ErrNotAuthenticated
                    /\ (f.ue.err = "nil" /\ ~f.ue.exists) => f.ret = ErrNotExistingAccount
              /\ f.ue.asked => (f.resolved /\ Len(f.rcps) = 0)

\* C8's case: a Route to alice, who has no stream while bob has one, from a
\* sender her block list does not hold, returned the storage's error.
C8_Witness ==
    \E g \in Callers :
        /\ frame[g].pc = "done"
        /\ frame[g].op = "Route"
        /\ frame[g].elem.to = JID("alice", "example.org", "")
        /\ frame[g].consulted
        /\ Len(frame[g].bl) > 0
        /\ frame[g].resolved
        /\ frame[g].ret = "storage: closed"
        /\ AuthedSet # {}

\* C9: a route to a full JID node@domain/resource that resolved at least one
\* recipient sends the stanza, whatever its kind, exactly once, to a recipient
\* whose Resource() is the addressed one, and returns nil; when no recipient
\* has that resource it sends nothing and returns ErrResourceNotFound.
C9_FullJID ==
    \A g \in Callers :
        LET f == frame[g]
        IN (f.pc = "done" /\ f.op \in RouteOps /\ IsFullWithUser(f.elem.to) /\ Len(f.rcps) > 0)
           => IF \E s \in Range(f.rcps) : Resource(s) = f.elem.to.resource
              THEN /\ f.ret = "nil"
                   /\ Len(f.sent) = 1
                   /\ f.sent[1] \in Range(f.rcps)
                   /\ Resource(f.sent[1]) = f.elem.to.resource
              ELSE /\ f.ret = ErrResourceNotFound
                   /\ f.sent = <<>>

\* C9's case: a message to alice@example.org/phone, alice's streams being the
\* laptop and then the phone, went to the phone alone.
C9_Witness ==
    \E g \in Callers :
        /\ frame[g].pc = "done"
        /\ frame[g].elem.kind = "message"
        /\ frame[g].elem.to = JID("alice", "example.org", "phone")
        /\ frame[g].rcps = <<"s2", "s1">>
        /\ frame[g].sent = <<"s1">>

\* the state part of C10
BlockedSenderIsRefused ==
    \A g \in Callers :
        LET f == frame[g]
        IN (f.pc # "idle" /\ f.op \in RouteOps)
           => /\ (f.op = "Route" /\ IsLocalDomain(f.elem.to.domain) /\ ~IsServer(f.elem.to))
                 => /\ f.consulted
                    /\ (f.pc \notin BlockListSteps /\ MatchesBlockList(f.elem.from, f.bl))
                       => /\ f.pc = "done"
                          /\ f.ret = ErrBlockedJID
                          /\ f.sent = <<>>
                          /\ ~f.resolved
                          /\ ~f.ue.asked
              /\ f.op = "MustRoute"
                 => /\ ~f.consulted
                    /\ f.pc \notin BlockListSteps
                    /\ f.ret # ErrBlockedJID
                    /\ (f.pc = "done" /\ IsLocalDomain(f.elem.to.domain)) => f.resolved
                    /\ (f.pc = "done" /\ Len(f.rcps) > 0 /\ ~IsFullWithUser(f.elem.to))
                       => (f.ret = "nil" /\ Len(f.sent) > 0)

\* C10: a Route to a user's JID (not the server's) whose sender matches the
\* user's block list returns ErrBlockedJID, sends nothing, and neither
\* resolves recipients nor asks UserExists; a MustRoute never consults or loads
\* a block list, never returns ErrBlockedJID, and delivers to the recipients it
\* resolves.
C10_BlockedSenderIsRefused ==
    /\ []BlockedSenderIsRefused
    /\ [][\A g \in Callers :
            (/\ frame[g].pc = "gbl_read"
             /\ frame[g].op = "Route"
             /\ frame[g].username \in DOMAIN blockLists
             /\ MatchesBlockList(frame[g].elem.from, MapGet(blockLists, frame[g].username))
             /\ frame'[g] # frame[g])
            => (frame'[g].pc = "done" /\ frame'[g].ret = ErrBlockedJID)]_vars
    /\ [][\A g \in Callers :
            (frame[g].pc # "idle" /\ frame[g].op = "MustRoute" /\ frame'[g] # frame[g])
            => blockLists' = blockLists]_vars

\* C10's case: a MustRoute of a message from bob to alice was delivered while
\* the cached block list of alice holds bob.
C10_Witness ==
    \E g \in Callers :
        /\ frame[g].pc = "done"
        /\ frame[g].op = "MustRoute"
        /\ frame[g].elem.kind = "message"
        /\ frame[g].elem.from = JID("bob", "example.org", "x")
        /\ frame[g].elem.to = JID("alice", "example.org", "")
        /\ "alice" \in DOMAIN blockLists
        /\ MatchesBlockList(frame[g].elem.from, MapGet(blockLists, "alice"))
        /\ Len(frame[g].sent) = 1

\* C11: a stanza that is not a message, routed to a bare or server JID of a
\* local domain for which the call resolved a non-empty list of recipients, is
\* sent once per element of that list, in the list's order, and route returns
\* nil.
C11_BroadcastInOrder ==
    \A g \in Callers :
        LET f == frame[g]
        IN (f.pc = "done" /\ f.op \in RouteOps /\ f.elem.kind # "message"
                /\ (IsBare(f.elem.to) \/ IsServer(f.elem.to))
                /\ IsLocalDomain(f.elem.to.domain) /\ Len(f.rcps) > 0)
           => /\ f.sent = f.rcps
              /\ f.ret = "nil"

\* C11's case: an iq to the server's JID went to a stream of bob and then to
\* a stream of alice, the order in which the call visited the users.
C11_Witness ==
    \E g \in Callers :
        /\ frame[g].pc = "done"
        /\ frame[g].op = "Route"
        /\ frame[g].elem.kind = "iq"
        /\ IsServer(frame[g].elem.to)
        /\ Len(frame[g].sent) = 2
        /\ Username(frame[g].sent[1]) = "bob"
        /\ Username(frame[g].sent[2]) = "alice"

----------------------------------------------------------------------------
(* The block-list cache's property (SpecBlock) *)

\* C7: a call of IsBlockedJID(j, u) returns what the call before it with the
\* same arguments returned, unless ReloadBlockList(u) was called since that
\* call began.  The code caches nothing when FetchBlockListItems fails, so a
\* call after a failed one reads the storage again.
C7_SameResultUntilReload ==
    \A g \in Callers :
        LET f == frame[g]
        IN (f.pc = "done" /\ f.op = "IsBlockedJID" /\ ~f.reloaded
                /\ <<f.jid, f.username>> \in DOMAIN lastBlocked)
           => f.ret = lastBlocked[<<f.jid, f.username>>]

----------------------------------------------------------------------------
(* The singleton's properties (SpecSingleton) *)

\* the state part of C12
OneInstance ==
    /\ created <= 1
    /\ inst # Nil => (created = 1 /\ inst.n = 1)
    /\ (initialized = 1 /\ \A g \in Goroutines : frame[g].pc \notin {"init_lock", "init_assign"})
          => (created = 1 /\ inst # Nil)

\* C12: however calls of Initialize interleave, at most one Manager is
\* made, exactly one once the call that won the compare-and-swap has assigned
\* it, and inst, once assigned, is never assigned again, whatever the config
\* of the later or concurrent calls.
C12_OneInstance ==
    /\ []OneInstance
    /\ [][inst # Nil => inst' = inst]_vars

\* C12's case: a call of Initialize with another config than the instance's
\* has run to its end beside the call that made the instance.
C12_Witness ==
    /\ inst # Nil
    /\ \A g \in Goroutines : frame[g].pc = "done" /\ frame[g].op = "Initialize"
    /\ \E g \in Goroutines : frame[g].cfg # inst.cfg

\* C19: a call of Instance made after some call of Initialize has returned
\* does not reach the fatal branch and returns a manager that is not nil.
\* A call of Initialize that loses the compare-and-swap returns at once,
\* before the winner has assigned inst, so this fails.
C19_InstanceAfterInitialize ==
    \A g \in Goroutines :
        (frame[g].pc # "idle" /\ frame[g].op = "Instance" /\ frame[g].after)
        => /\ frame[g].pc # "fatal"
           /\ frame[g].pc \in {"inst_runlock", "done"} => frame[g].ret # Nil

----------------------------------------------------------------------------
(* The stream context's properties (SpecContext) *)

\* the places of a DoOnce before its function has been run
BeforeF == {"once_lock", "once_check", "once_unlock_run", "once_f"}

\* the places where a goroutine holds ctx.mu for writing
HoldsMu == {"once_check", "once_unlock_run", "once_unlock_skip", "w_f", "w_unlock"}

\* some call of DoOnce with h may still run the function
MayStillRun(h) ==
    \E g \in Goroutines : \E i \in 1..Len(stack[g]) :
        stack[g][i].op = "DoOnce" /\ stack[g][i].name = h /\ stack[g][i].pc \in BeforeF

\* C13: however calls of DoOnce interleave, the function of a name is run at
\* most once, and exactly once when every call of DoOnce with the name has
\* gone past the point where it runs it; DoOnce does not hold ctx.mu when it
\* runs the function, a goroutine never waits for a lock it holds itself, and
\* while a call is in progress some call can take a step.
C13_DoOnce ==
    /\ \A h \in Handlers :
          /\ ran[h] <= 1
          /\ (h \in onceCalled /\ ~MayStillRun(h)) => ran[h] = 1
          /\ h \notin onceCalled => ran[h] = 0
    /\ \A g \in Goroutines :
          stack[g] # <<>> =>
             /\ Top(g).pc = "once_f" => (mu.w # g /\ g \notin mu.r)
             /\ Top(g).pc \in {"once_lock", "w_lock", "r_lock"} => (mu.w # g /\ g \notin mu.r)
             /\ mu.w = g => Top(g).pc \in HoldsMu
    /\ (\E g \in Goroutines : stack[g] # <<>>) => ENABLED ContextSteps

\* C13's case: the function of h1 has called DoOnce with h2, whose function
\* is storing a string under the write lock, while another goroutine that
\* called DoOnce with h2 waits for the lock.
C13_Witness ==
    \E g, g2 \in Goroutines :
        /\ Len(stack[g]) = 3
        /\ Top(g).pc = "w_f"
        /\ mu.w = g
        /\ stack[g2] # <<>>
        /\ Top(g2).op = "DoOnce"
        /\ Top(g2).name = "h2"
        /\ Top(g2).pc = "once_lock"

----------------------------------------------------------------------------
(* The registration handler's properties (SpecRegister) *)

\* the storage was asked to insert or update a user during the last ProcessIQ
Inserted == \E i \in 1..Len(iqLog.calls) : iqLog.calls[i].fn = "InsertOrUpdateUser"

\* the last ProcessIQ made a new account: the insertion returned no error
Registered == Inserted /\ iqLog.replies = <<"result">>

\* the to JIDs the handler is to accept
AcceptedTo(jid) ==
    IsServer(jid) \/ (~xep.stm.authenticated /\ IsBare(jid) /\ jid.node = xep.stm.username)

\* the state part of C14
LatchFollowsRegistration ==
    (iqLog.processed /\ ~xep.stm.authenticated /\ AcceptedTo(iqLog.iq.to)
        /\ iqLog.iq.type = "set")
    => IF iqLog.before
       THEN /\ iqLog.replies = <<"not-acceptable">>
            /\ iqLog.calls = <<>>
            /\ xep.registered
       ELSE /\ xep.registered <=> Registered
            /\ iqLog.replies \in
                  {<<"result">>, <<"bad-request">>, <<"conflict">>, <<"internal-server-error">>}

\* C14: on a stream that is not authenticated the latch is set by an IQ-set
\* whose InsertOrUpdateUser returned no error and by nothing else, and is
\* never cleared; once it is set an IQ-set is answered not-acceptable with no
\* call of the storage; an attempt that failed leaves it clear; an account is
\* made only by the step that sets the latch, so a handler makes at most one.
C14_RegisteredLatch ==
    /\ []LatchFollowsRegistration
    /\ [][xep.registered => xep'.registered]_vars
    /\ [][(~xep.registered /\ xep'.registered)
            => (/\ ~xep.stm.authenticated
                /\ iqLog'.processed
                /\ iqLog'.iq.type = "set"
                /\ iqLog'.replies = <<"result">>
                /\ iqLog'.calls[Len(iqLog'.calls)].fn = "InsertOrUpdateUser")]_vars
    /\ [][~(DOMAIN users' \subseteq DOMAIN users) => (~xep.registered /\ xep'.registered)]_vars

\* C14's case: the handler has made the account of bob, and a further IQ-set
\* for another account was answered not-acceptable.
C14_Witness ==
    /\ iqLog.processed
    /\ ~xep.stm.authenticated
    /\ iqLog.iq.type = "set"
    /\ iqLog.before
    /\ iqLog.replies = <<"not-acceptable">>
    /\ "bob" \in DOMAIN users

\* the state part of C15
ChangeIsChecked ==
    (iqLog.processed /\ xep.stm.authenticated /\ AcceptedTo(iqLog.iq.to)
        /\ iqLog.iq.type = "set" /\ ~iqLog.iq.remove
        /\ iqLog.iq.username # Absent /\ iqLog.iq.password # Absent)
    => IF ~xep.cfg.AllowChange
       THEN iqLog.replies = <<"not-allowed">> /\ iqLog.calls = <<>>
       ELSE IF iqLog.iq.username[1] # xep.stm.username
       THEN iqLog.replies = <<"not-allowed">> /\ iqLog.calls = <<>>
       ELSE IF ~xep.stm.secured
       THEN iqLog.replies = <<"not-authorized">> /\ iqLog.calls = <<>>
       ELSE /\ Len(iqLog.calls) > 0
            /\ iqLog.calls[1] = StorageCall("FetchUser", xep.stm.username)

\* C15: on an authenticated stream an IQ-set that changes the password is
\* answered not-allowed when AllowChange is off, not-allowed when the username
\* is not the stream's, not-authorized when the stream is not secured, in that
\* order, and in these cases the storage is not called; the password of an
\* account changes only on a secured stream of that account with AllowChange.
C15_ChangePasswordIsChecked ==
    /\ []ChangeIsChecked
    /\ [][\A u \in DOMAIN users \cap DOMAIN users' :
            users'[u] # users[u]
            => (/\ xep.stm.authenticated
                /\ xep.stm.secured
                /\ xep.cfg.AllowChange
                /\ u = xep.stm.username)]_vars

\* C15's case: alice, authenticated on a stream that is not secured, with
\* AllowChange on, asked for a new password and was answered not-authorized.
C15_Witness ==
    /\ iqLog.processed
    /\ xep.stm.authenticated
    /\ ~xep.stm.secured
    /\ xep.cfg.AllowChange
    /\ xep.stm.username = "alice"
    /\ iqLog.iq.type = "set"
    /\ iqLog.iq.username = <<"alice">>
    /\ iqLog.iq.password = <<"pw2">>
    /\ iqLog.replies = <<"not-authorized">>
    /\ users["alice"] = "pw1"

\* C16: an IQ whose to is the server's JID or, on a stream that is not
\* authenticated, the bare JID of the stream's username is not answered
\* forbidden; for an IQ with any other to the handler sends one forbidden
\* error and does nothing else: no call of the storage, the latch, the handler
\* and the accounts as they were.
C16_OtherToIsForbidden ==
    /\ [](iqLog.processed =>
            IF AcceptedTo(iqLog.iq.to)
            THEN iqLog.replies # <<"forbidden">>
            ELSE /\ iqLog.replies = <<"forbidden">>
                 /\ iqLog.calls = <<>>
                 /\ xep.registered = iqLog.before)
    /\ [][(iqLog'.processed /\ iqLog'.replies = <<"forbidden">>) => UNCHANGED <<xep, users>>]_vars

\* C16's case: on the authenticated stream of alice an IQ-set to the bare JID
\* alice@example.org was answered forbidden.
C16_Witness ==
    /\ iqLog.processed
    /\ xep.stm.authenticated
    /\ xep.stm.username = "alice"
    /\ iqLog.iq.to = JID("alice", "example.org", "")
    /\ iqLog.iq.type = "set"
    /\ iqLog.replies = <<"forbidden">>

\* C20: with AllowRegistration off, no IQ processed on a stream that is not
\* authenticated makes the handler call InsertOrUpdateUser.  The flag is
\* looked at for an IQ-get alone (line 63), so an IQ-set registers an account.
C20_NoRegistrationWhenDisabled ==
    (iqLog.processed /\ ~xep.cfg.AllowRegistration /\ ~xep.stm.authenticated) => ~Inserted

----------------------------------------------------------------------------
(* The reload's property (SpecReload) *)

\* C18: a call of IsBlockedJID or Route for user u that began after
\* ReloadBlockList(u) returned uses the block list the storage held at the
\* reload or holds since: when the storage had been emptied before the reload,
\* the sender is not found blocked and Route does not return ErrBlockedJID.
\* A load that read the storage before the reload installs what it read after
\* it, and the calls that follow use that list, so this fails.
C18_AccessAfterReloadIsFresh ==
    \A g \in Goroutines :
        LET f == frame[g]
        IN (/\ f.pc # "idle"
            /\ f.pc \notin BlockListSteps
            /\ f.consulted
            /\ ~f.reloaded
            /\ lastCall.op = "ReloadBlockList"
            /\ lastCall.stm = f.username
            /\ lastCall.stored = <<>>)
           => /\ ~MatchesBlockList(f.jid, f.bl)
              /\ f.ret \notin {ErrBlockedJID, "true"}

----------------------------------------------------------------------------
(* The lock's property (SpecLock) *)

\* the places where a goroutine is in a call of the storage (FetchBlockListItems,
\* UserExists) or in the calls of SendElement
ExternalCalls == {"gbl_fetch", "user_exists", "deliver"}

\* the places between a Lock or RLock and the matching Unlock or RUnlock
LockedPlaces ==
    {"gbl_read_locked", "gbl_runlock_hit", "gbl_runlock_miss", "gbl_install_locked",
     "gbl_unlock", "smj_locked", "smj_runlock", "lc_locked", "lc_unlock"}

\* goroutine g holds m.lock, for reading or for writing
HoldsLock(g) == lock.w = g \/ g \in lock.r

\* C17: a goroutine that is in a call of the storage or of SendElement does
\* not hold m.lock, and a goroutine holds the lock in its critical sections
\* alone; so a lifecycle call that waits for the lock while every other
\* goroutine is in such a call, or in none, can take it.
C17_NoLockAcrossExternalCalls ==
    \A g \in Goroutines :
        /\ frame[g].pc \in ExternalCalls => ~HoldsLock(g)
        /\ HoldsLock(g) => frame[g].pc \in LockedPlaces
        /\ (/\ frame[g].pc = "lc_lock"
            /\ \A g2 \in Goroutines \ {g} : frame[g2].pc \in ExternalCalls \cup {"idle", "done"})
           => ENABLED LcLock(g)

\* C17's case: while a goroutine is in FetchBlockListItems for a Route,
\* another has taken the write lock and registered a stream.
C17_Witness ==
    \E g, g2 \in Goroutines :
        /\ frame[g].pc = "gbl_fetch"
        /\ frame[g].op = "Route"
        /\ frame[g2].pc = "lc_unlock"
        /\ frame[g2].op = "RegisterStream"
        /\ lock.w = g2
        /\ "id1" \in DOMAIN stms

====
